---- MODULE Spec2Model ----
\* Duckov_Mod_Tracker: the reconciliation engine of merge_old_data.py
\* (timestamp normalizer, deduplicator, merger, validator, the merge run of
\* main) and the aligner of plot_utils.py, as state machines.
EXTENDS Integers, Sequences, FiniteSets, TLC

VARIABLES
    \* ---- normalize_timestamp applied to one raw value
    timestamp_str,   \* the argument: [ok |-> FALSE] for a missing value, else a string
    normalized,      \* normalize_timestamp(timestamp_str), once computed
    renormalized,    \* normalize_timestamp of that result, once computed
    npc,             \* "raw" | "once" | "twice"
    \* ---- clean_data, merge_with_existing and validate_data applied to tables
    tbl,             \* the file mod_stats.csv the call reads: [exists, rows]
    batch,           \* the rows of the batch (old_data_df)
    out,             \* the frame the call returned, or left behind: [dtype, rows]
    out2,            \* the frame a second merge of the same batch returned
    ret,             \* validate_data's outcome: "True" | "False" | "KeyError"
    fn,              \* the call made: "none" | "clean_data" | "merge" | ...
    \* ---- the merge run, main() of merge_old_data.py, and the files it owns
    csv,             \* CURRENT_DATA_FILE, mod_stats.csv: [exists, rows]
    backup,          \* BACKUP_FILE, mod_stats_backup.csv: [exists, rows]
    pc,              \* where main() stands: "idle" between runs, else the step done
    old_data_df,     \* main's old_data_df (rows)
    merged_df,       \* main's merged_df: [dtype, rows]
    valid,           \* what validate_data returned in this run
    outcome,         \* how the last run ended
    csv0,            \* history: the persisted file as the run found it
    backed,          \* history: the run copied the persisted file to the backup
    runs,            \* number of runs started
    \* ---- the aligner, plot_trends_from_csv of plot_utils.py
    plot_df,         \* df: rows [mod_id, timestamp, timestamp_normalized, subscribers]
    df0,             \* history: df as read, timestamps parsed
    precision,       \* "min" | "h" | "D" | "W", "none" before it is chosen
    total_subs,      \* the per-timestamp totals: rows [timestamp, subscribers]
    apc              \* the step done: "read" | "normalized" | "aligned" | ...

normVars == <<timestamp_str, normalized, renormalized, npc>>
tableVars == <<tbl, batch, out, out2, ret, fn>>
runVars == <<csv, backup, pc, old_data_df, merged_df, valid, outcome, csv0, backed, runs>>
alignVars == <<plot_df, df0, precision, total_subs, apc>>
vars == <<normVars, tableVars, runVars, alignVars>>

-----------------------------------------------------------------------------
\* Strings are sequences of one-character strings.

Digits == {"0", "1", "2", "3", "4", "5", "6", "7", "8", "9"}

\* int(c) of one decimal digit
DigitVal(c) ==
    CASE c = "0" -> 0 [] c = "1" -> 1 [] c = "2" -> 2 [] c = "3" -> 3
      [] c = "4" -> 4 [] c = "5" -> 5 [] c = "6" -> 6 [] c = "7" -> 7
      [] c = "8" -> 8 [] c = "9" -> 9

\* code point of a character, the order Python compares str by
Ord(c) ==
    CASE c = " " -> 32 [] c = "-" -> 45 [] c = "/" -> 47 [] c = ":" -> 58
      [] c = "x" -> 120
      [] OTHER -> 48 + DigitVal(c)

IsDigits(s) == \A i \in 1..Len(s) : s[i] \in Digits

\* int(s) of a string of digits
RECURSIVE IntOf(_)
IntOf(s) ==
    IF s = <<>> THEN 0
    ELSE 10 * IntOf(SubSeq(s, 1, Len(s) - 1)) + DigitVal(s[Len(s)])

\* c in s
Contains(s, c) == \E i \in 1..Len(s) : s[i] = c

\* s.find(c) + 1: the first position of c in s, 0 when absent
IndexOf(s, c) ==
    IF Contains(s, c)
    THEN CHOOSE i \in 1..Len(s) : s[i] = c /\ \A j \in 1..(i - 1) : s[j] # c
    ELSE 0

\* s.split(c) with an explicit separator: empty pieces are kept
RECURSIVE Split(_, _)
Split(s, c) ==
    LET i == IndexOf(s, c) IN
    IF i = 0 THEN <<s>>
    ELSE <<SubSeq(s, 1, i - 1)>> \o Split(SubSeq(s, i + 1, Len(s)), c)

\* s.strip()
RECURSIVE Strip(_)
Strip(s) ==
    IF s = <<>> THEN s
    ELSE IF s[1] = " " THEN Strip(Tail(s))
    ELSE IF s[Len(s)] = " " THEN Strip(SubSeq(s, 1, Len(s) - 1))
    ELSE s

\* s.zfill(2): zeros go after a leading sign
Zfill2(s) ==
    IF Len(s) >= 2 THEN s
    ELSE IF s = <<>> THEN <<"0", "0">>
    ELSE IF s[1] = "-" THEN <<"-", "0">>
    ELSE <<"0">> \o s

-----------------------------------------------------------------------------
\* The calendar, and datetime.strptime(s, '%Y-%m-%d %H:%M:%S').

IsLeap(y) == (y % 4 = 0 /\ y % 100 # 0) \/ y % 400 = 0

DaysInMonth(y, m) ==
    IF m = 2 THEN (IF IsLeap(y) THEN 29 ELSE 28)
    ELSE IF m \in {4, 6, 9, 11} THEN 30 ELSE 31

\* the first position at or after i that holds no digit
RECURSIVE DigitsEnd(_, _)
DigitsEnd(s, i) ==
    IF i <= Len(s) /\ s[i] \in Digits THEN DigitsEnd(s, i + 1) ELSE i

\* the first position at or after i that holds no space
RECURSIVE SpacesEnd(_, _)
SpacesEnd(s, i) ==
    IF i <= Len(s) /\ s[i] = " " THEN SpacesEnd(s, i + 1) ELSE i

\* a field of one or two digits whose value lies in lo..hi: the directives
\* %m (1[0-2]|0[1-9]|[1-9]), %d, %H (2[0-3]|[0-1]\d|\d), %M, %S
FieldOK(f, lo, hi) ==
    /\ Len(f) \in {1, 2}
    /\ IsDigits(f)
    /\ IntOf(f) >= lo
    /\ IntOf(f) <= hi

NoDatetime == [ok |-> FALSE, dt |-> <<>>]

\* The directives match in order; a space of the format matches \s+; %d also
\* matches a space followed by one digit 1-9; nothing may remain unconverted;
\* the datetime constructor then rejects a day past the month's end and a
\* second above 59.
Strptime(s) ==
    IF ~(Len(s) >= 5 /\ IsDigits(SubSeq(s, 1, 4)) /\ s[5] = "-") THEN NoDatetime
    ELSE
    LET y   == IntOf(SubSeq(s, 1, 4))
        mE  == DigitsEnd(s, 6)
        mF  == SubSeq(s, 6, mE - 1)
    IN
    IF ~(FieldOK(mF, 1, 12) /\ mE <= Len(s) /\ s[mE] = "-") THEN NoDatetime
    ELSE
    LET dS  == IF mE + 1 <= Len(s) /\ s[mE + 1] = " " THEN mE + 2 ELSE mE + 1
        dE  == DigitsEnd(s, dS)
        dF  == SubSeq(s, dS, dE - 1)
        dOK == IF dS = mE + 2 THEN Len(dF) = 1 /\ FieldOK(dF, 1, 9)
               ELSE FieldOK(dF, 1, 31)
        hS  == SpacesEnd(s, dE)
    IN
    IF ~(dOK /\ hS > dE) THEN NoDatetime
    ELSE
    LET hE  == DigitsEnd(s, hS)
        hF  == SubSeq(s, hS, hE - 1)
    IN
    IF ~(FieldOK(hF, 0, 23) /\ hE <= Len(s) /\ s[hE] = ":") THEN NoDatetime
    ELSE
    LET miE == DigitsEnd(s, hE + 1)
        miF == SubSeq(s, hE + 1, miE - 1)
    IN
    IF ~(FieldOK(miF, 0, 59) /\ miE <= Len(s) /\ s[miE] = ":") THEN NoDatetime
    ELSE
    LET sF  == SubSeq(s, miE + 1, Len(s))
    IN
    IF ~(FieldOK(sF, 0, 59) /\ IntOf(dF) <= DaysInMonth(y, IntOf(mF)))
    THEN NoDatetime
    ELSE [ok |-> TRUE,
          dt |-> <<y, IntOf(mF), IntOf(dF), IntOf(hF), IntOf(miF), IntOf(sF)>>]

-----------------------------------------------------------------------------
\* normalize_timestamp

NoneStr == [ok |-> FALSE, s |-> <<>>]
Some(s) == [ok |-> TRUE, s |-> s]

\* the branch taken when the text holds a slash
NormalizeSlash(ts) ==
    LET parts      == Split(ts, " ")
        date_part  == parts[1]
        time_part  == IF Len(parts) > 1 THEN parts[2] ELSE <<"0", "0", ":", "0", "0">>
        date_parts == Split(date_part, "/")
        time_parts == Split(time_part, ":")
    IN
    IF Len(date_parts) < 3 THEN NoneStr      \* IndexError, caught
    ELSE
    LET year   == date_parts[1]
        month  == Zfill2(date_parts[2])
        day    == Zfill2(date_parts[3])
        hour   == Zfill2(time_parts[1])
        minute == IF Len(time_parts) > 1 THEN Zfill2(time_parts[2]) ELSE <<"0", "0">>
        second == IF Len(time_parts) > 2 THEN Zfill2(time_parts[3]) ELSE <<"0", "0">>
        result == year \o <<"-">> \o month \o <<"-">> \o day \o <<" ">>
                  \o hour \o <<":">> \o minute \o <<":">> \o second
    IN
    IF Strptime(result).ok THEN Some(result) ELSE NoneStr

\* the dash branch appending ":00" whatever the time of day holds
NormalizeDashAlwaysAppend(ts) ==
    LET parts == Split(ts, " ")
        ts2   == IF Len(parts) = 2
                 THEN parts[1] \o <<" ">> \o parts[2] \o <<":", "0", "0">>
                 ELSE ts
    IN
    IF Strptime(ts2).ok THEN Some(ts2) ELSE NoneStr

\* the branch taken when the text holds a dash and no slash
NormalizeDash(ts) ==
    LET parts == Split(ts, " ")
        ts2   == IF Len(parts) = 2 /\ Len(Split(parts[2], ":")) = 2
                 THEN parts[1] \o <<" ">> \o parts[2] \o <<":", "0", "0">>
                 ELSE ts
    IN
    IF Strptime(ts2).ok THEN Some(ts2) ELSE NoneStr

normalize_timestamp(x) ==
    IF ~x.ok \/ x.s = <<>> THEN NoneStr
    ELSE
    LET ts == Strip(x.s) IN
    IF Contains(ts, "/") THEN NormalizeSlash(ts)
    ELSE IF Contains(ts, "-") THEN NormalizeDash(ts)
    ELSE NoneStr


-----------------------------------------------------------------------------
\* Tables. A row is [mod_id, timestamp, subscribers]; a frame is [dtype, rows],
\* dtype being the type of the timestamp column: "str" (text, as read_csv and
\* normalize_timestamp give it) or "datetime64" (after pd.to_datetime).

\* MODS of mod_config.py. TLC's integers are 32 bits wide, so an id is held
\* as its value minus 3596000000; the order of the ids is kept.
MAIN_MOD_ID == 640733
HIDE_BODY_ID == 1297032
HIDE_PET_ID == 3597476
MODS == {MAIN_MOD_ID, HIDE_BODY_ID, HIDE_PET_ID}

Row(m, t, c) == [mod_id |-> m, timestamp |-> t, subscribers |-> c]
Frame(d, r) == [dtype |-> d, rows |-> r]
StrFrame(r) == Frame("str", r)

\* the first position where a and b differ, 0 when one is a prefix of the other
RECURSIVE FirstDiff(_, _, _)
FirstDiff(a, b, i) ==
    IF i > Len(a) \/ i > Len(b) THEN 0
    ELSE IF a[i] # b[i] THEN i
    ELSE FirstDiff(a, b, i + 1)

\* a < b for two str values: by code point, a proper prefix first
StrLess(a, b) ==
    LET k == FirstDiff(a, b, 1) IN
    IF k = 0 THEN Len(a) < Len(b) ELSE Ord(a[k]) < Ord(b[k])

\* the order of sort_values(['mod_id', 'timestamp', 'subscribers'])
KeyLess3(r1, r2) ==
    IF r1.mod_id # r2.mod_id THEN r1.mod_id < r2.mod_id
    ELSE IF r1.timestamp # r2.timestamp THEN StrLess(r1.timestamp, r2.timestamp)
    ELSE r1.subscribers < r2.subscribers

\* r put into the sorted sequence s after every row not greater than it
RECURSIVE Insert3(_, _)
Insert3(s, r) ==
    IF s = <<>> THEN <<r>>
    ELSE IF KeyLess3(r, s[Len(s)]) THEN Append(Insert3(SubSeq(s, 1, Len(s) - 1), r), s[Len(s)])
    ELSE Append(s, r)

\* df.sort_values(['mod_id', 'timestamp', 'subscribers']): a stable sort
RECURSIVE SortByKey3(_)
SortByKey3(s) ==
    IF s = <<>> THEN <<>>
    ELSE Insert3(SortByKey3(SubSeq(s, 1, Len(s) - 1)), s[Len(s)])

RECURSIVE InsertTs(_, _)
InsertTs(s, r) ==
    IF s = <<>> THEN <<r>>
    ELSE IF StrLess(r.timestamp, s[Len(s)].timestamp)
         THEN Append(InsertTs(SubSeq(s, 1, Len(s) - 1), r), s[Len(s)])
    ELSE Append(s, r)

\* df.sort_values('timestamp'): rows of equal timestamp keep their order (the
\* order pandas leaves them in is not specified; nothing below reads it)
RECURSIVE SortByTimestamp(_)
SortByTimestamp(s) ==
    IF s = <<>> THEN <<>>
    ELSE InsertTs(SortByTimestamp(SubSeq(s, 1, Len(s) - 1)), s[Len(s)])

SameKey(r1, r2) == r1.mod_id = r2.mod_id /\ r1.timestamp = r2.timestamp

\* the subsequence of s at the positions in keep
RECURSIVE Pick(_, _, _)
Pick(s, keep, i) ==
    IF i > Len(s) THEN <<>>
    ELSE (IF i \in keep THEN <<s[i]>> ELSE <<>>) \o Pick(s, keep, i + 1)

\* drop_duplicates with keep='first', and left out altogether
DropDuplicatesFirst(s) ==
    Pick(s, { i \in 1..Len(s) : \A j \in 1..(i - 1) : ~SameKey(s[i], s[j]) }, 1)

DropDuplicatesNone(s) == s

\* one row per key, its count the sum of the counts of the rows of the key
DropDuplicatesSum(s) ==
    LET kept == Pick(s, { i \in 1..Len(s) : \A j \in (i + 1)..Len(s) : ~SameKey(s[i], s[j]) }, 1)
        total(r) == LET idx == { i \in 1..Len(s) : SameKey(s[i], r) }
                        f[I \in SUBSET idx] ==
                            IF I = {} THEN 0
                            ELSE LET i == CHOOSE x \in I : TRUE
                                 IN s[i].subscribers + f[I \ {i}]
                    IN f[idx]
    IN [i \in 1..Len(kept) |-> [kept[i] EXCEPT !.subscribers = total(kept[i])]]

\* df.drop_duplicates(subset=['mod_id', 'timestamp'], keep='last')
DropDuplicatesLast(s) ==
    Pick(s, { i \in 1..Len(s) : \A j \in (i + 1)..Len(s) : ~SameKey(s[i], s[j]) }, 1)

\* clean_data(df)
clean_data(rows) ==
    IF rows = <<>> THEN rows
    ELSE SortByTimestamp(DropDuplicatesLast(SortByKey3(rows)))

AbsentFile == [exists |-> FALSE, rows |-> <<>>]
File(r) == [exists |-> TRUE, rows |-> r]

\* the merger with the drop_duplicates step left out, and with the final
\* sort left out
merge_without_dedup(file, old_df) ==
    LET existing_df == IF file.exists THEN file.rows ELSE <<>>
    IN SortByTimestamp(SortByKey3(existing_df \o old_df))

merge_without_final_sort(file, old_df) ==
    LET existing_df == IF file.exists THEN file.rows ELSE <<>>
    IN DropDuplicatesLast(SortByKey3(existing_df \o old_df))

\* merge_with_existing(old_data_df), reading the file CURRENT_DATA_FILE
merge_with_existing(file, old_df) ==
    LET existing_df == IF file.exists THEN file.rows ELSE <<>>
        combined_df == existing_df \o old_df
    IN SortByTimestamp(DropDuplicatesLast(SortByKey3(combined_df)))

-----------------------------------------------------------------------------
\* pd.to_datetime on the timestamp column, and to_csv of a datetime64 column.

DigitChar(n) ==
    CASE n = 0 -> "0" [] n = 1 -> "1" [] n = 2 -> "2" [] n = 3 -> "3"
      [] n = 4 -> "4" [] n = 5 -> "5" [] n = 6 -> "6" [] n = 7 -> "7"
      [] n = 8 -> "8" [] n = 9 -> "9"

\* '%02d' % n and '%04d' % n
Fmt2(n) == <<DigitChar((n \div 10) % 10), DigitChar(n % 10)>>
Fmt4(n) == Fmt2(n \div 100) \o Fmt2(n % 100)

FormatDate(dt) == Fmt4(dt[1]) \o <<"-">> \o Fmt2(dt[2]) \o <<"-">> \o Fmt2(dt[3])
FormatFull(dt) ==
    FormatDate(dt) \o <<" ">> \o Fmt2(dt[4]) \o <<":">> \o Fmt2(dt[5]) \o <<":">> \o Fmt2(dt[6])

Midnight == <<" ", "0", "0", ":", "0", "0", ":", "0", "0">>

\* The format pd.to_datetime infers for a text: "full" for the zero-padded
\* YYYY-MM-DD HH:MM:SS, "date" for the zero-padded YYYY-MM-DD, "none" for a
\* text that is no datetime.
FormatOf(s) ==
    IF Len(s) = 19
    THEN (IF \E p \in {Strptime(s)} : p.ok /\ FormatFull(p.dt) = s THEN "full" ELSE "none")
    ELSE IF Len(s) = 10
    THEN (IF \E p \in {Strptime(s \o Midnight)} : p.ok /\ FormatDate(p.dt) = s
          THEN "date" ELSE "none")
    ELSE "none"

ParseText(s) == IF FormatOf(s) = "full" THEN Strptime(s).dt ELSE Strptime(s \o Midnight).dt

\* the rows with each timestamp text replaced by the datetime it parses to
RECURSIVE ParseRows(_)
ParseRows(rows) ==
    IF rows = <<>> THEN <<>>
    ELSE <<Row(rows[1].mod_id, ParseText(rows[1].timestamp), rows[1].subscribers)>>
         \o ParseRows(Tail(rows))

\* pd.to_datetime(df['timestamp']) of a text column: the format is inferred
\* from the first element and every element must match it (pandas 2), and a
\* text that is no datetime raises; a datetime64 column is returned as it is.
to_datetime(df) ==
    IF df.dtype = "datetime64" THEN [ok |-> TRUE, rows |-> df.rows]
    ELSE IF \E i \in 1..Len(df.rows) :
                \/ FormatOf(df.rows[i].timestamp) = "none"
                \/ FormatOf(df.rows[i].timestamp) # FormatOf(df.rows[1].timestamp)
    THEN [ok |-> FALSE, rows |-> df.rows]
    ELSE [ok |-> TRUE, rows |-> ParseRows(df.rows)]

\* df.duplicated(subset=['mod_id', 'timestamp']).sum() > 0
HasDuplicates(rows) ==
    \E i, j \in 1..Len(rows) : i < j /\ SameKey(rows[i], rows[j])

\* validate_data(df): what it returns ("True", "False", or "KeyError" when
\* MODS[mod_id] raises) and the frame df is left as, the caller's own object.
validate_data(df) ==
    IF df.rows = <<>> THEN [ret |-> "False", df |-> df]
    ELSE
    LET conv == to_datetime(df) IN
    IF ~conv.ok THEN [ret |-> "False", df |-> df]
    ELSE
    LET df2 == Frame("datetime64", conv.rows) IN
    IF HasDuplicates(df2.rows) THEN [ret |-> "False", df |-> df2]
    ELSE IF \E i \in 1..Len(df2.rows) : df2.rows[i].mod_id \notin MODS
         THEN [ret |-> "KeyError", df |-> df2]
    ELSE [ret |-> "True", df |-> df2]

\* the rows with each datetime written as text, as a date alone or in full
RECURSIVE FormatRows(_, _)
FormatRows(rows, datesOnly) ==
    IF rows = <<>> THEN <<>>
    ELSE <<Row(rows[1].mod_id,
               IF datesOnly THEN FormatDate(rows[1].timestamp)
               ELSE FormatFull(rows[1].timestamp),
               rows[1].subscribers)>>
         \o FormatRows(Tail(rows), datesOnly)

\* the data rows df.to_csv(path, index=False) writes: a datetime64 column is
\* written as dates alone when every value is at midnight
to_csv(df) ==
    IF df.dtype = "str" THEN df.rows
    ELSE FormatRows(df.rows,
                    \A i \in 1..Len(df.rows) :
                        /\ df.rows[i].timestamp[4] = 0
                        /\ df.rows[i].timestamp[5] = 0
                        /\ df.rows[i].timestamp[6] = 0)

-----------------------------------------------------------------------------
\* Raw timestamp texts the normalizer is applied to.

Y2025 == <<"2", "0", "2", "5">>

RawMonths == {<<"1">>, <<"0", "1">>, <<"1", "1">>, <<"1", "3">>}
RawDays   == {<<"1">>, <<"0", "1">>, <<"3", "1">>, <<"3", "2">>}
RawSeps   == {"/", "-"}
RawTimes ==
    { <<>>,
      <<" ", "7", ":", "5">>,
      <<" ", "1", "7", ":", "1", "8">>,
      <<" ", "1", "7", ":", "1", "8", ":", "0", "9">>,
      <<" ", "7", ":", "5", ":", "3">>,
      <<" ", "2", "4", ":", "0", "0">>,
      <<" ", "1", "7", ":", "1", "8", ":", "3", "0", ":", "9", "9">>,
      <<" ", "1", "7", ":", "1", "8", " ", "x">>,
      <<" ", " ", "1", "7", ":", "1", "8">>,
      <<" ", "1", "7">>,
      <<" ">> }

RawTexts ==
    { Y2025 \o <<a>> \o m \o <<b>> \o d \o t :
        a \in RawSeps, b \in RawSeps, m \in RawMonths, d \in RawDays, t \in RawTimes }
    \cup { <<>>, <<"x">>, <<" ">>,
           <<" ">> \o Y2025 \o <<"/", "1", "1", "/", "1", " ", "1", "7", ":", "1", "8">>,
           Y2025 \o <<"/", "1", "1", "/", "1", "/", "5", " ", "1", "7", ":", "1", "8">>,
           <<"2", "5", "/", "1", "1", "/", "1">>,
           Y2025 \o <<"-", "1", "1", "-", " ", "1", " ", "1", "7", ":", "1", "8", ":", "0", "0">>,
           Y2025 \o <<"-", "0", "2", "-", "2", "9", " ", "1", "0", ":", "0", "0", ":", "0", "0">>,
           Y2025 \o <<"/", "1", "1", "/", "1", " ", "1", "7", ":", "1", "8", ":", "6", "0">> }

RawValues == {NoneStr} \cup { Some(s) : s \in RawTexts }

-----------------------------------------------------------------------------
\* The table functions applied to drawn tables.

MaxRows == 3

TS_A == Y2025 \o <<"-", "1", "1", "-", "0", "1", " ", "0", "0", ":", "0", "0", ":", "0", "0">>
TS_B == Y2025 \o <<"-", "1", "1", "-", "0", "1", " ", "1", "7", ":", "1", "8", ":", "0", "0">>
TS_C == Y2025 \o <<"-", "1", "1", "-", "0", "2", " ", "0", "9", ":", "0", "0", ":", "0", "0">>
TS_BAD == Y2025 \o <<"-", "1", "3", "-", "0", "1", " ", "1", "0", ":", "0", "0", ":", "0", "0">>
UNKNOWN_MOD_ID == MAIN_MOD_ID + 1

Counts == {5, 7}

\* every sequence of at most n elements of S
SeqsUpTo(S, n) == UNION { [1..k -> S] : k \in 0..n }

TableRows == { Row(m, t, c) : m \in {MAIN_MOD_ID, HIDE_BODY_ID},
                              t \in {TS_A, TS_B, TS_C}, c \in Counts }

NoFrame == StrFrame(<<>>)

NormIdle ==
    /\ timestamp_str = NoneStr
    /\ normalized = NoneStr
    /\ renormalized = NoneStr
    /\ npc = "off"

RunIdle ==
    /\ csv = AbsentFile
    /\ backup = AbsentFile
    /\ pc = "off"
    /\ old_data_df = <<>>
    /\ merged_df = NoFrame
    /\ valid = "none"
    /\ outcome = "none"
    /\ csv0 = AbsentFile
    /\ backed = FALSE
    /\ runs = 0
AlignIdle ==
    /\ plot_df = <<>>
    /\ df0 = <<>>
    /\ precision = "none"
    /\ total_subs = <<>>
    /\ apc = "off"

TableIdle ==
    /\ tbl = AbsentFile
    /\ batch = <<>>
    /\ out = NoFrame
    /\ out2 = NoFrame
    /\ ret = "none"
    /\ fn = "off"

\* the rows drawn are cut into the persisted table and the batch
TableInit ==
    /\ \E all \in SeqsUpTo(TableRows, MaxRows) : \E k \in 0..Len(all) :
          /\ tbl \in (IF k = 0 THEN {AbsentFile, File(<<>>)} ELSE {File(SubSeq(all, 1, k))})
          /\ batch = SubSeq(all, k + 1, Len(all))
    /\ out = NoFrame
    /\ out2 = NoFrame
    /\ ret = "none"
    /\ fn = "none"
    /\ NormIdle
    /\ RunIdle
    /\ AlignIdle

CleanData ==
    /\ fn = "none"
    /\ out' = StrFrame(clean_data(tbl.rows))
    /\ fn' = "clean_data"
    /\ UNCHANGED <<tbl, batch, out2, ret, normVars, runVars, alignVars>>

MergeWithExisting ==
    /\ fn = "none"
    /\ out' = StrFrame(merge_with_existing(tbl, batch))
    /\ fn' = "merge"
    /\ UNCHANGED <<tbl, batch, out2, ret, normVars, runVars, alignVars>>

\* the batch merged again into the table the first merge returned
MergeAgain ==
    /\ fn = "merge"
    /\ out2' = StrFrame(merge_with_existing(File(out.rows), batch))
    /\ fn' = "merge_twice"
    /\ UNCHANGED <<tbl, batch, out, ret, normVars, runVars, alignVars>>

MergeEmpty ==
    /\ fn = "none"
    /\ out' = StrFrame(merge_with_existing(tbl, <<>>))
    /\ fn' = "merge_empty"
    /\ UNCHANGED <<tbl, batch, out2, ret, normVars, runVars, alignVars>>

TableNext == CleanData \/ MergeWithExisting \/ MergeAgain \/ MergeEmpty

SpecTable == TableInit /\ [][TableNext]_vars

\* validate_data applied to a drawn frame, held in tbl as read from a file
ValidateRows == { Row(m, t, c) : m \in {MAIN_MOD_ID, UNKNOWN_MOD_ID},
                                 t \in {TS_A, TS_B, TS_BAD}, c \in {5} }

ValidateInit ==
    /\ tbl \in { File(r) : r \in SeqsUpTo(ValidateRows, MaxRows) }
    /\ batch = <<>>
    /\ out = NoFrame
    /\ out2 = NoFrame
    /\ ret = "none"
    /\ fn = "none"
    /\ NormIdle
    /\ RunIdle
    /\ AlignIdle

ValidateData ==
    /\ fn = "none"
    /\ \E r \in {validate_data(StrFrame(tbl.rows))} :
          /\ ret' = r.ret
          /\ out' = r.df
    /\ fn' = "validate"
    /\ UNCHANGED <<tbl, batch, out2, normVars, runVars, alignVars>>

SpecValidate == ValidateInit /\ [][ValidateData]_vars

-----------------------------------------------------------------------------
\* The merge run: main() of merge_old_data.py, step by step, and migrate_csv.

MaxInitRows == 2
MaxBatch == 2
MaxRuns == 2

\* rows a persisted file may hold before the first run
InitRows == { Row(m, t, 5) : m \in {MAIN_MOD_ID, UNKNOWN_MOD_ID}, t \in {TS_A, TS_B, TS_BAD} }

\* rows of the legacy files under old_data: the mod_id is the one the file
\* name maps to, the timestamp is the raw text of the file
RAW_DATE == Y2025 \o <<"/", "1", "1", "/", "1">>
RAW_TIME == Y2025 \o <<"/", "1", "1", "/", "1", " ", "1", "7", ":", "1", "8">>
RAW_BAD  == Y2025 \o <<"/", "1", "3", "/", "1", " ", "1", "0", ":", "0", "0">>
RawRows == { Row(m, t, c) : m \in {MAIN_MOD_ID, HIDE_BODY_ID},
                            t \in {RAW_DATE, RAW_TIME, RAW_BAD}, c \in Counts }

\* load_old_data(): each timestamp is normalized, the rows normalize_timestamp
\* gives None for are dropped, the frames are concatenated
RECURSIVE load_old_data(_)
load_old_data(raw) ==
    IF raw = <<>> THEN <<>>
    ELSE LET n == normalize_timestamp(Some(raw[1].timestamp)) IN
         (IF n.ok THEN <<Row(raw[1].mod_id, n.s, raw[1].subscribers)>> ELSE <<>>)
         \o load_old_data(Tail(raw))

\* every frame load_old_data() can return for the legacy files drawn
LoadedBatches == { load_old_data(raw) : raw \in SeqsUpTo(RawRows, MaxBatch) }

\* the backup step leaving the backup file as it was
BackupKeepsOld(file, bak) == bak

\* shutil.copy2(CURRENT_DATA_FILE, BACKUP_FILE) under os.path.exists
backup_copy(file, bak) == IF file.exists THEN file ELSE bak

\* main going on to save whatever validate_data returned
ValidationNeverBlocks(r) == FALSE

\* "if not validate_data(merged_df): return"
ValidationBlocks(r) == r = "False"

RunInit ==
    /\ csv \in {AbsentFile} \cup { File(r) : r \in SeqsUpTo(InitRows, MaxInitRows) }
    /\ backup = AbsentFile
    /\ pc = "idle"
    /\ old_data_df = <<>>
    /\ merged_df = NoFrame
    /\ valid = "none"
    /\ outcome = "none"
    /\ csv0 = AbsentFile
    /\ backed = FALSE
    /\ runs = 0
    /\ NormIdle
    /\ TableIdle
    /\ AlignIdle

\* lines 296-300
Backup ==
    /\ pc = "idle"
    /\ runs < MaxRuns
    /\ runs' = runs + 1
    /\ csv0' = csv
    /\ backup' = backup_copy(csv, backup)
    /\ backed' = csv.exists
    /\ pc' = "backed_up"
    /\ outcome' = "running"
    /\ valid' = "none"
    /\ UNCHANGED <<csv, old_data_df, merged_df, normVars, tableVars, alignVars>>

\* lines 302-307
LoadOldData ==
    /\ pc = "backed_up"
    /\ \E df \in LoadedBatches :
          IF df = <<>>
          THEN /\ pc' = "idle"
               /\ outcome' = "no_old_data"
               /\ old_data_df' = <<>>
          ELSE /\ pc' = "loaded"
               /\ outcome' = outcome
               /\ old_data_df' = df
    /\ UNCHANGED <<csv, backup, merged_df, valid, csv0, backed, runs, normVars, tableVars, alignVars>>

\* line 310
CleanOldData ==
    /\ pc = "loaded"
    /\ old_data_df' = clean_data(old_data_df)
    /\ pc' = "cleaned"
    /\ UNCHANGED <<csv, backup, merged_df, valid, outcome, csv0, backed, runs,
                   normVars, tableVars, alignVars>>

\* line 319
Merge ==
    /\ pc = "cleaned"
    /\ merged_df' = StrFrame(merge_with_existing(csv, old_data_df))
    /\ pc' = "merged"
    /\ UNCHANGED <<csv, backup, old_data_df, valid, outcome, csv0, backed, runs,
                   normVars, tableVars, alignVars>>

\* lines 322-324: a KeyError out of validate_data ends the process
Validate ==
    /\ pc = "merged"
    /\ \E r \in {validate_data(merged_df)} :
          /\ valid' = r.ret
          /\ IF r.ret = "KeyError"
             THEN /\ pc' = "idle"
                  /\ outcome' = "crashed"
                  /\ merged_df' = NoFrame
                  /\ old_data_df' = <<>>
             ELSE IF ValidationBlocks(r.ret)
             THEN /\ pc' = "idle"
                  /\ outcome' = "validation_failed"
                  /\ merged_df' = NoFrame
                  /\ old_data_df' = <<>>
             ELSE /\ pc' = "validated"
                  /\ outcome' = outcome
                  /\ merged_df' = r.df
                  /\ old_data_df' = old_data_df
    /\ UNCHANGED <<csv, backup, csv0, backed, runs, normVars, tableVars, alignVars>>

\* lines 327-339
Save ==
    /\ pc = "validated"
    /\ csv' = File(to_csv(merged_df))
    /\ pc' = "idle"
    /\ outcome' = "saved"
    /\ merged_df' = NoFrame
    /\ old_data_df' = <<>>
    /\ UNCHANGED <<backup, valid, csv0, backed, runs, normVars, tableVars, alignVars>>

\* migrate_csv() run on the persisted file between merge runs: the file is
\* read and written to the backup; it has no url column, so df_old['url']
\* raises, the handler prints the error and nothing else is written. A
\* missing file raises FileNotFoundError before anything is written.
MigrateCsv ==
    /\ pc = "idle"
    /\ csv.exists
    /\ backup' = File(csv.rows)
    /\ UNCHANGED <<csv, pc, old_data_df, merged_df, valid, outcome, csv0, backed, runs,
                   normVars, tableVars, alignVars>>

Next ==
    \/ Backup
    \/ LoadOldData
    \/ CleanOldData
    \/ Merge
    \/ Validate
    \/ Save
    \/ MigrateCsv

Spec == RunInit /\ [][Next]_vars

-----------------------------------------------------------------------------
\* The aligner: plot_trends_from_csv up to the totals it plots. A timestamp
\* is a datetime held as seconds since a Monday 00:00:00.

MaxAlignRows == 3

DAY == 86400

AlignTimes == {0, 30, 60, 120, 86400, 604800, 2592000}
\* the samples drawn: one count for the main mod, two for another mod
AlignSamples == {<<MAIN_MOD_ID, 5>>, <<HIDE_BODY_ID, 5>>, <<HIDE_BODY_ID, 7>>}
AlignRows == { [mod_id |-> mc[1], timestamp |-> t, timestamp_normalized |-> t, subscribers |-> mc[2]] :
                 mc \in AlignSamples, t \in AlignTimes }

SetMax(S) == CHOOSE x \in S : \A y \in S : y <= x
SetMin(S) == CHOOSE x \in S : \A y \in S : x <= y
Abs(x) == IF x < 0 THEN -x ELSE x

TimesOf(rows) == { rows[i].timestamp : i \in 1..Len(rows) }

\* the precision chosen with the bounds of the spans counted in
ChoosePrecisionInclusive(rows) ==
    IF rows = <<>> THEN "W"
    ELSE LET time_span == SetMax(TimesOf(rows)) - SetMin(TimesOf(rows)) IN
         IF time_span <= DAY THEN "min"
         ELSE IF time_span <= 7 * DAY THEN "h"
         ELSE IF time_span <= 30 * DAY THEN "D"
         ELSE "W"

\* lines 30-50: the precision chosen from the span of the timestamps; the
\* span of an empty frame is NaT, which compares false with every bound
ChoosePrecision(rows) ==
    IF rows = <<>> THEN "W"
    ELSE LET time_span == SetMax(TimesOf(rows)) - SetMin(TimesOf(rows)) IN
         IF time_span < DAY THEN "min"
         ELSE IF time_span < 7 * DAY THEN "h"
         ELSE IF time_span < 30 * DAY THEN "D"
         ELSE "W"

\* lines 55-62: dt.floor(precision); to_period('W').start_time is the Monday
\* 00:00:00 of the week
FloorTo(t, prec) ==
    LET unit == CASE prec = "min" -> 60 [] prec = "h" -> 3600
                  [] prec = "D" -> DAY [] OTHER -> 7 * DAY
    IN (t \div unit) * unit

\* lines 67-68: the sorted unique bucketed timestamps of the main mod
RECURSIVE SortedSeqOf(_)
SortedSeqOf(S) ==
    IF S = {} THEN <<>> ELSE <<SetMin(S)>> \o SortedSeqOf(S \ {SetMin(S)})

main_mod_timestamps(rows) ==
    SortedSeqOf({ rows[i].timestamp_normalized :
                    i \in { j \in 1..Len(rows) : rows[j].mod_id = MAIN_MOD_ID } })

\* align_to_main giving an exact tie to the left neighbour
align_to_main_tie_left(main_ts, timestamp) ==
    LET idx == Cardinality({ i \in 1..Len(main_ts) : main_ts[i] < timestamp }) IN
    IF idx = 0 THEN main_ts[1]
    ELSE IF idx = Len(main_ts) THEN main_ts[Len(main_ts)]
    ELSE LET left  == main_ts[idx]
             right == main_ts[idx + 1]
         IN IF Abs(timestamp - left) <= Abs(timestamp - right) THEN left ELSE right

\* align_to_main with the comparison of the two distances turned round
align_to_main_farther(main_ts, timestamp) ==
    LET idx == Cardinality({ i \in 1..Len(main_ts) : main_ts[i] < timestamp }) IN
    IF idx = 0 THEN main_ts[1]
    ELSE IF idx = Len(main_ts) THEN main_ts[Len(main_ts)]
    ELSE LET left  == main_ts[idx]
             right == main_ts[idx + 1]
         IN IF Abs(timestamp - left) > Abs(timestamp - right) THEN left ELSE right

\* lines 72-86: align_to_main(timestamp)
align_to_main(main_ts, timestamp) ==
    LET idx == Cardinality({ i \in 1..Len(main_ts) : main_ts[i] < timestamp }) IN
    IF idx = 0 THEN main_ts[1]
    ELSE IF idx = Len(main_ts) THEN main_ts[Len(main_ts)]
    ELSE LET left  == main_ts[idx]
             right == main_ts[idx + 1]
         IN IF Abs(timestamp - left) < Abs(timestamp - right) THEN left ELSE right

RECURSIVE SetNormalized(_, _)
SetNormalized(rows, prec) ==
    IF rows = <<>> THEN <<>>
    ELSE <<[rows[1] EXCEPT !.timestamp_normalized = FloorTo(rows[1].timestamp, prec)]>>
         \o SetNormalized(Tail(rows), prec)

\* lines 65-95: df['timestamp'] becomes the aligned timestamp when the main
\* mod has rows, the bucketed timestamp otherwise
RECURSIVE SetAligned(_, _)
SetAligned(rows, main_ts) ==
    IF rows = <<>> THEN <<>>
    ELSE <<[rows[1] EXCEPT !.timestamp =
                IF main_ts = <<>> THEN rows[1].timestamp_normalized
                ELSE align_to_main(main_ts, rows[1].timestamp_normalized)]>>
         \o SetAligned(Tail(rows), main_ts)

SamePoint(r1, r2) == r1.timestamp = r2.timestamp /\ r1.mod_id = r2.mod_id

\* the step with drop_duplicates left out
PlotKeepAll(rows) == rows

\* line 102: drop_duplicates(subset=['timestamp', 'mod_id'], keep='last')
PlotDropDuplicates(rows) ==
    Pick(rows, { i \in 1..Len(rows) : \A j \in (i + 1)..Len(rows) : ~SamePoint(rows[i], rows[j]) }, 1)

\* the orderings of the rows at the indices I that ascend in timestamp
RECURSIVE OrdersOf(_, _)
OrdersOf(rows, I) ==
    IF I = {} THEN {<<>>}
    ELSE UNION { { <<rows[i]>> \o rest : rest \in OrdersOf(rows, I \ {i}) } :
                   i \in { k \in I : \A l \in I : rows[k].timestamp <= rows[l].timestamp } }

\* line 98: df.sort_values('timestamp') sorts with quicksort, which keeps no
\* order among rows of equal timestamp: every ordering that is ascending in
\* timestamp is a possible result
SortedOrders(rows) == OrdersOf(rows, 1..Len(rows))

\* line 113: df.groupby('timestamp')['subscribers'].sum().reset_index()
RECURSIVE SumSubscribers(_)
SumSubscribers(rows) ==
    IF rows = <<>> THEN 0 ELSE rows[1].subscribers + SumSubscribers(Tail(rows))

RECURSIVE GroupSums(_, _)
GroupSums(rows, times) ==
    IF times = <<>> THEN <<>>
    ELSE <<[timestamp |-> times[1],
            subscribers |-> SumSubscribers(SelectSeq(rows, LAMBDA r : r.timestamp = times[1]))]>>
         \o GroupSums(rows, Tail(times))

AlignInit ==
    /\ df0 \in SeqsUpTo(AlignRows, MaxAlignRows)
    /\ plot_df = df0
    /\ precision = "none"
    /\ total_subs = <<>>
    /\ apc = "read"
    /\ NormIdle
    /\ TableIdle
    /\ RunIdle

\* lines 30-62
NormalizePrecision ==
    /\ apc = "read"
    /\ precision' = ChoosePrecision(plot_df)
    /\ plot_df' = SetNormalized(plot_df, ChoosePrecision(plot_df))
    /\ apc' = "normalized"
    /\ UNCHANGED <<df0, total_subs, normVars, tableVars, runVars>>

\* lines 64-95
AlignToMain ==
    /\ apc = "normalized"
    /\ plot_df' = SetAligned(plot_df, main_mod_timestamps(plot_df))
    /\ apc' = "aligned"
    /\ UNCHANGED <<df0, precision, total_subs, normVars, tableVars, runVars>>

\* lines 97-102
SortAndDeduplicate ==
    /\ apc = "aligned"
    /\ \E sorted \in SortedOrders(plot_df) : plot_df' = PlotDropDuplicates(sorted)
    /\ apc' = "deduplicated"
    /\ UNCHANGED <<df0, precision, total_subs, normVars, tableVars, runVars>>

\* line 113
Aggregate ==
    /\ apc = "deduplicated"
    /\ total_subs' = GroupSums(plot_df, SortedSeqOf(TimesOf(plot_df)))
    /\ apc' = "totalled"
    /\ UNCHANGED <<plot_df, df0, precision, normVars, tableVars, runVars>>

AlignNext == NormalizePrecision \/ AlignToMain \/ SortAndDeduplicate \/ Aggregate

SpecAlign == AlignInit /\ [][AlignNext]_vars

-----------------------------------------------------------------------------
\* The normalizer applied to a raw value, then to its own result.

NormInit ==
    /\ timestamp_str \in RawValues
    /\ normalized = NoneStr
    /\ renormalized = NoneStr
    /\ npc = "raw"
    /\ TableIdle
    /\ RunIdle
    /\ AlignIdle

Normalize ==
    /\ npc = "raw"
    /\ normalized' = normalize_timestamp(timestamp_str)
    /\ npc' = "once"
    /\ UNCHANGED <<timestamp_str, renormalized, tableVars, runVars, alignVars>>

Renormalize ==
    /\ npc = "once"
    /\ normalized.ok
    /\ renormalized' = normalize_timestamp(normalized)
    /\ npc' = "twice"
    /\ UNCHANGED <<timestamp_str, normalized, tableVars, runVars, alignVars>>

NormNext == Normalize \/ Renormalize

SpecNorm == NormInit /\ [][NormNext]_vars

-----------------------------------------------------------------------------
\* Properties.

KeyOf(r) == <<r.mod_id, r.timestamp>>
KeysOf(rows) == { KeyOf(rows[i]) : i \in 1..Len(rows) }
RowsOf(rows) == { rows[i] : i \in 1..Len(rows) }
NoDuplicateKeys(rows) ==
    \A i, j \in 1..Len(rows) : i # j => KeyOf(rows[i]) # KeyOf(rows[j])
SortedByTimestamp(rows) ==
    \A i, j \in 1..Len(rows) : i < j => ~StrLess(rows[j].timestamp, rows[i].timestamp)

\* the observations the deduplicating call was given
DedupInput == IF fn = "merge" THEN tbl.rows \o batch ELSE tbl.rows

\* C1: the deduplicator (clean_data, and the dedup step of merge_with_existing)
\* returns at most one observation per (mod_id, timestamp) key, exactly one
\* for every key of its input, and the survivor is an input observation whose
\* count is the largest among the input observations of its key.
C1_DedupKeepsMaxPerKey ==
    fn \in {"clean_data", "merge"} =>
        /\ NoDuplicateKeys(out.rows)
        /\ KeysOf(out.rows) = KeysOf(DedupInput)
        /\ RowsOf(out.rows) \subseteq RowsOf(DedupInput)
        /\ \A i \in 1..Len(out.rows) : \A j \in 1..Len(DedupInput) :
              KeyOf(DedupInput[j]) = KeyOf(out.rows[i])
                  => DedupInput[j].subscribers <= out.rows[i].subscribers

\* a merge where a persisted row collides with a later batch row of smaller count
C1_Witness ==
    /\ fn = "merge"
    /\ \E i \in 1..Len(tbl.rows) : \E j \in 1..Len(batch) :
          /\ KeyOf(tbl.rows[i]) = KeyOf(batch[j])
          /\ tbl.rows[i].subscribers > batch[j].subscribers
    /\ Len(out.rows) < Len(DedupInput)

\* C2: merging the batch into the result of merging it into the table gives
\* the table the first merge gave: the same observations, as many rows.
C2_MergeIdempotent ==
    fn = "merge_twice" =>
        /\ RowsOf(out2.rows) = RowsOf(out.rows)
        /\ Len(out2.rows) = Len(out.rows)

\* a second merge of a batch that collided with the persisted table
C2_Witness ==
    /\ fn = "merge_twice"
    /\ tbl.rows # <<>>
    /\ Len(batch) >= 2
    /\ Len(out.rows) < Len(tbl.rows) + Len(batch)
    /\ KeysOf(batch) \cap KeysOf(tbl.rows) # {}

\* C3: merging the empty batch returns the deduplicated table, clean_data of
\* the persisted rows, sorted ascending by timestamp.
C3_MergeEmptyIsDedup ==
    fn = "merge_empty" =>
        /\ RowsOf(out.rows) = RowsOf(clean_data(tbl.rows))
        /\ Len(out.rows) = Len(clean_data(tbl.rows))
        /\ SortedByTimestamp(out.rows)

\* an empty batch merged into an unsorted table holding a duplicated key
C3_Witness ==
    /\ fn = "merge_empty"
    /\ ~NoDuplicateKeys(tbl.rows)
    /\ ~SortedByTimestamp(tbl.rows)
    /\ Len(out.rows) >= 2

\* C4, as claimed: after any sequence of merge runs from any persisted table,
\* the persisted table holds no two observations of one key.
C4_PersistedNeverHasDuplicates ==
    (runs >= 1 /\ pc = "idle") => NoDuplicateKeys(csv.rows)

\* C4, amended: the table a merge produces holds no two observations of one
\* key, and so does the persisted table once a run has written it.
C4_MergedAndSavedHaveNoDuplicates ==
    /\ pc \in {"merged", "validated"} => NoDuplicateKeys(merged_df.rows)
    /\ outcome = "saved" => NoDuplicateKeys(csv.rows)

\* a run that found duplicated keys in the persisted table and wrote it
C4_Witness ==
    /\ outcome = "saved"
    /\ ~NoDuplicateKeys(csv0.rows)
    /\ Len(csv.rows) >= 2

\* C5: a run whose validation fails ends as a failed run, not a crash, and
\* leaves the persisted table exactly as the run found it.
C5_FailedValidationKeepsTable ==
    (pc = "idle" /\ valid = "False") =>
        /\ outcome = "validation_failed"
        /\ csv = csv0

\* a run over an existing table ended by a failed validation
C5_Witness ==
    /\ pc = "idle"
    /\ valid = "False"
    /\ outcome = "validation_failed"
    /\ csv.exists
    /\ csv.rows # <<>>

\* C6: the step that overwrites an existing persisted table is taken only
\* when this run has written the backup and the backup holds exactly what the
\* persisted table holds just before the overwrite.
C6_BackupBeforeOverwrite ==
    [][(pc = "validated" /\ pc' = "idle" /\ csv.exists)
          => (backed /\ backup = csv)]_vars

\* a run that overwrote a table with different contents, backup in place
C6_Witness ==
    /\ outcome = "saved"
    /\ csv0.exists
    /\ csv0.rows # <<>>
    /\ csv # csv0
    /\ backup = csv0

\* the rows of a frame at one effective timestamp, of one entity
RowsAt(rows, t, m) ==
    { i \in 1..Len(rows) : rows[i].timestamp = t /\ rows[i].mod_id = m }

\* the count an entity contributes at a timestamp: that of its one row, 0 without
ContributionAt(rows, t, m) ==
    IF RowsAt(rows, t, m) = {} THEN 0
    ELSE rows[CHOOSE i \in RowsAt(rows, t, m) : TRUE].subscribers

\* the largest count among the samples of an entity as read, 0 without
LargestSample(m) ==
    IF \E i \in 1..Len(df0) : df0[i].mod_id = m
    THEN SetMax({ df0[i].subscribers : i \in { j \in 1..Len(df0) : df0[j].mod_id = m } })
    ELSE 0

\* C7: in the aggregate series every entity has at most one observation per
\* effective timestamp, the series has one total per effective timestamp, the
\* total is the sum over the entities of the count of the entity's one
\* observation there, and so no total exceeds one sample per entity.
C7_TotalsCountEachEntityOnce ==
    apc = "totalled" =>
        /\ \A i, j \in 1..Len(plot_df) : i # j => ~SamePoint(plot_df[i], plot_df[j])
        /\ { total_subs[k].timestamp : k \in 1..Len(total_subs) } = TimesOf(plot_df)
        /\ \A k, l \in 1..Len(total_subs) :
              k # l => total_subs[k].timestamp # total_subs[l].timestamp
        /\ \A k \in 1..Len(total_subs) :
              /\ total_subs[k].subscribers =
                    ContributionAt(plot_df, total_subs[k].timestamp, MAIN_MOD_ID)
                  + ContributionAt(plot_df, total_subs[k].timestamp, HIDE_BODY_ID)
              /\ total_subs[k].subscribers
                    <= LargestSample(MAIN_MOD_ID) + LargestSample(HIDE_BODY_ID)

\* two samples of one entity, taken at different times, snapped to one grid
\* point and were totalled as one
C7_Witness ==
    /\ apc = "totalled"
    /\ \E i, j \in 1..Len(df0) :
          /\ df0[i].mod_id = df0[j].mod_id
          /\ df0[i].timestamp # df0[j].timestamp
          /\ df0[i].subscribers # df0[j].subscribers
    /\ Len(plot_df) < Len(df0)
    /\ Len(total_subs) = 1
    /\ Len(plot_df) = 2

\* a timestamp text that pd.to_datetime cannot read
Unparseable(rows) == \E i \in 1..Len(rows) : FormatOf(rows[i].timestamp) = "none"

\* C8, as claimed: validate_data returns fail exactly when the table is
\* empty, or a timestamp is no calendar datetime, or two rows share a key,
\* and returns pass otherwise.
C8_ValidatorPassFail ==
    fn = "validate" =>
        IF tbl.rows = <<>> \/ Unparseable(tbl.rows) \/ ~NoDuplicateKeys(tbl.rows)
        THEN ret = "False"
        ELSE ret = "True"

\* C9, as claimed: validate_data leaves the frame it is given as it was, the
\* type of the timestamp column included.
C9_ValidatorDoesNotMutate ==
    fn = "validate" => (out.dtype = "str" /\ out.rows = tbl.rows)

\* C10: normalizing an accepted text again gives the same text.
C10_NormalizeIdempotent ==
    npc = "twice" => renormalized = normalized

\* a slash text that the normalizer rewrote, normalized a second time
C10_Witness ==
    /\ npc = "twice"
    /\ Contains(timestamp_str.s, "/")
    /\ normalized.s # timestamp_str.s
    /\ renormalized.ok

\* The two accepted shapes of a raw text, read off independently of the
\* normalizer: YYYY, month and day joined by one kind of separator (all
\* slashes or all dashes), then nothing, or one space and H:M or H:M:S; month,
\* day, hour, minute and second of one or two digits; a date of the calendar.
ShapeWith(s, sep) ==
    LET parts == Split(s, " ") IN
    IF Len(parts) \notin {1, 2} THEN NoDatetime
    ELSE
    LET date_parts == Split(parts[1], sep)
        time_parts == IF Len(parts) = 2 THEN Split(parts[2], ":")
                      ELSE << <<"0">>, <<"0">>, <<"0">> >>
    IN
    IF ~(/\ Len(date_parts) = 3
         /\ Len(date_parts[1]) = 4 /\ IsDigits(date_parts[1])
         /\ FieldOK(date_parts[2], 1, 12)
         /\ FieldOK(date_parts[3], 1, 31)
         /\ Len(time_parts) \in {2, 3}
         /\ FieldOK(time_parts[1], 0, 23)
         /\ FieldOK(time_parts[2], 0, 59)
         /\ (Len(time_parts) = 3 => FieldOK(time_parts[3], 0, 59)))
    THEN NoDatetime
    ELSE
    IF IntOf(date_parts[3]) > DaysInMonth(IntOf(date_parts[1]), IntOf(date_parts[2]))
    THEN NoDatetime
    ELSE [ok |-> TRUE,
          dt |-> <<IntOf(date_parts[1]), IntOf(date_parts[2]), IntOf(date_parts[3]),
                   IntOf(time_parts[1]), IntOf(time_parts[2]),
                   IF Len(time_parts) = 3 THEN IntOf(time_parts[3]) ELSE 0>>]

\* the datetime a value in one of the accepted shapes denotes; surrounding
\* blanks are not counted against the shape
AcceptedShape(x) ==
    IF ~x.ok THEN NoDatetime
    ELSE IF ShapeWith(Strip(x.s), "/").ok THEN ShapeWith(Strip(x.s), "/")
    ELSE ShapeWith(Strip(x.s), "-")

\* the canonical text of a datetime: YYYY-MM-DD HH:MM:SS, zero-padded
Canonical(dt) ==
    Fmt4(dt[1]) \o <<"-">> \o Fmt2(dt[2]) \o <<"-">> \o Fmt2(dt[3]) \o <<" ">>
    \o Fmt2(dt[4]) \o <<":">> \o Fmt2(dt[5]) \o <<":">> \o Fmt2(dt[6])

\* C11, as claimed: for every input in an accepted shape normalize_timestamp
\* returns the canonical zero-padded text YYYY-MM-DD HH:MM:SS of the same
\* datetime, seconds 00 when missing, 00:00:00 when the time of day is missing.
C11_NormalizeGivesCanonical ==
    (npc = "once" /\ AcceptedShape(timestamp_str).ok) =>
        normalized = Some(Canonical(AcceptedShape(timestamp_str).dt))

\* C12, as claimed: for a missing or empty input, and for every input in
\* neither accepted shape or off the calendar, normalize_timestamp returns
\* None and never a timestamp text.
C12_NormalizeRejectsOtherInputs ==
    (npc = "once" /\ ~AcceptedShape(timestamp_str).ok) => ~normalized.ok

\* the reference grid: the bucketed timestamps of the main mod's rows
MainGrid == { plot_df[i].timestamp_normalized :
                i \in { j \in 1..Len(plot_df) : plot_df[j].mod_id = MAIN_MOD_ID } }

\* the grid points at the least absolute distance from t
Nearest(t, G) == { g \in G : \A h \in G : Abs(t - g) <= Abs(t - h) }

\* C13, as claimed: with a reference grid, every bucketed timestamp is snapped
\* to the nearest grid point (the first below the grid, the last above it),
\* and to the earlier of the two when two grid points are equally near.
C13_SnapsToNearestTieEarlier ==
    (apc = "aligned" /\ MainGrid # {}) =>
        \A i \in 1..Len(plot_df) :
            plot_df[i].timestamp = SetMin(Nearest(plot_df[i].timestamp_normalized, MainGrid))

\* C13, amended: the same, but when two grid points are equally near the
\* timestamp is snapped to the later of the two.
C13_SnapsToNearestTieLater ==
    (apc = "aligned" /\ MainGrid # {}) =>
        \A i \in 1..Len(plot_df) :
            /\ plot_df[i].timestamp = SetMax(Nearest(plot_df[i].timestamp_normalized, MainGrid))
            /\ plot_df[i].timestamp_normalized < SetMin(MainGrid)
                  => plot_df[i].timestamp = SetMin(MainGrid)
            /\ plot_df[i].timestamp_normalized > SetMax(MainGrid)
                  => plot_df[i].timestamp = SetMax(MainGrid)

\* an observation halfway between two grid points, snapped to the later one,
\* beside one above the grid
C13_Witness ==
    /\ apc = "aligned"
    /\ \E i \in 1..Len(plot_df) :
          /\ Cardinality(Nearest(plot_df[i].timestamp_normalized, MainGrid)) = 2
          /\ plot_df[i].timestamp > plot_df[i].timestamp_normalized

\* the reference grid as the rows read give it: the buckets of the main mod's
\* samples at the precision chosen
GridOfInput == { FloorTo(df0[i].timestamp, precision) :
                   i \in { j \in 1..Len(df0) : df0[j].mod_id = MAIN_MOD_ID } }

\* C17: with a reference grid, an observation whose bucketed timestamp is a
\* grid point (every observation of the main mod among them) keeps it as its
\* effective timestamp, and every grid point is an effective timestamp of the
\* aligned frame, before and after the duplicates are dropped.
C17_SnapIsIdentityOnGrid ==
    (apc \in {"aligned", "deduplicated", "totalled"} /\ MainGrid # {}) =>
        /\ \A i \in 1..Len(plot_df) :
              plot_df[i].timestamp_normalized \in MainGrid
                  => plot_df[i].timestamp = plot_df[i].timestamp_normalized
        /\ MainGrid \subseteq TimesOf(plot_df)
        /\ GridOfInput \subseteq TimesOf(plot_df)
        /\ \A g \in MainGrid : \E i \in 1..Len(plot_df) :
              plot_df[i].mod_id = MAIN_MOD_ID /\ plot_df[i].timestamp = g

\* a grid of two points, a row of another mod sitting on the later one and
\* keeping it
C17_Witness ==
    /\ apc = "aligned"
    /\ Cardinality(MainGrid) = 2
    /\ \E i \in 1..Len(plot_df) :
          /\ plot_df[i].mod_id = HIDE_BODY_ID
          /\ plot_df[i].timestamp_normalized = SetMax(MainGrid)
          /\ plot_df[i].timestamp = plot_df[i].timestamp_normalized

\* the span between the earliest and the latest timestamp read, in seconds
SpanOfInput == SetMax(TimesOf(df0)) - SetMin(TimesOf(df0))

\* the length in seconds of a bucket of each precision
BucketSeconds(prec) ==
    CASE prec = "min" -> 60
      [] prec = "h"   -> 60 * 60
      [] prec = "D"   -> 24 * 60 * 60
      [] prec = "W"   -> 7 * 24 * 60 * 60

\* C15: the precision is minute for a span under 1 day, hour from 1 day to
\* under 7 days, day from 7 days to under 30 days, week from 30 days on; every
\* bucketed timestamp is the start of the bucket of that precision holding the
\* timestamp read (weeks start on Monday 00:00:00, the origin of the seconds).
C15_PrecisionFromSpanAndFloor ==
    (apc = "normalized" /\ df0 # <<>>) =>
        /\ precision = (IF SpanOfInput < 24 * 60 * 60 THEN "min"
                        ELSE IF SpanOfInput < 7 * 24 * 60 * 60 THEN "h"
                        ELSE IF SpanOfInput < 30 * 24 * 60 * 60 THEN "D"
                        ELSE "W")
        /\ Len(plot_df) = Len(df0)
        /\ \A i \in 1..Len(df0) :
              /\ plot_df[i].timestamp_normalized % BucketSeconds(precision) = 0
              /\ plot_df[i].timestamp_normalized <= df0[i].timestamp
              /\ df0[i].timestamp < plot_df[i].timestamp_normalized + BucketSeconds(precision)

\* a table spanning exactly one day, bucketed by the hour, with a sample
\* moved back to the start of its hour
C15_Witness ==
    /\ apc = "normalized"
    /\ df0 # <<>>
    /\ SpanOfInput = 24 * 60 * 60
    /\ precision = "h"
    /\ \E i \in 1..Len(df0) : plot_df[i].timestamp_normalized < df0[i].timestamp

\* C14, as claimed: the step that drops the duplicates after snapping keeps,
\* of the observations of one entity at one effective timestamp, the one with
\* the largest count: no observation of the aligned frame has a larger count
\* than the survivor of its entity and effective timestamp.
C14_AlignerKeepsLargestCount ==
    [][(apc = "aligned" /\ apc' = "deduplicated") =>
          \A i \in 1..Len(plot_df') : \A j \in 1..Len(plot_df) :
              SamePoint(plot_df[j], plot_df'[i])
                  => plot_df[j].subscribers <= plot_df'[i].subscribers]_vars

\* C16: clean_data and merge_with_existing only select: every row they return
\* is, in mod_id, timestamp and subscribers, a row of the persisted table or
\* of the batch.
C16_MergeOnlySelects ==
    fn \in {"clean_data", "merge", "merge_twice", "merge_empty"} =>
        /\ \A i \in 1..Len(out.rows) :
              \/ \E j \in 1..Len(tbl.rows) : out.rows[i] = tbl.rows[j]
              \/ \E j \in 1..Len(batch) : fn # "clean_data" /\ fn # "merge_empty"
                                           /\ out.rows[i] = batch[j]
        /\ fn = "merge_twice" =>
              \A i \in 1..Len(out2.rows) :
                  out2.rows[i] \in RowsOf(tbl.rows) \cup RowsOf(batch)

\* a merge that dropped a colliding row and returned a row found only in the
\* persisted table beside a row found only in the batch
C16_Witness ==
    /\ fn = "merge"
    /\ Len(out.rows) < Len(tbl.rows) + Len(batch)
    /\ \E i \in 1..Len(out.rows) : out.rows[i] \in RowsOf(tbl.rows) \ RowsOf(batch)
    /\ \E i \in 1..Len(out.rows) : out.rows[i] \in RowsOf(batch) \ RowsOf(tbl.rows)

====
